---- MODULE Spec2Model ----
(***************************************************************************)
(* A model of the Markdown engine of kittenbark/mono (src/md.go, the       *)
(* version with paragraph synthesis, lines 1-333): the shared tag catalog  *)
(* MarkdownTags with its scanner-local state, the pass orchestrator        *)
(* markdownApplyTags, the paragraph synthesizer markdownApplyParagraphs    *)
(* and the renderer in Markdown.                                           *)
(*                                                                         *)
(* A text is a sequence of one-character strings.  Indices are the Go      *)
(* indices (from 0); At(data, i) reads data[i].  The texts of the model    *)
(* are ASCII, so byte offsets and character offsets coincide.              *)
(*                                                                         *)
(* An output is a sequence of pieces: an original character, an insertion  *)
(* string of the catalog (written without its class attribute: "<b>",      *)
(* "<h1>", ...) or a piece of a transformation's template.  An insertion   *)
(* (template.HTML) is a sequence of pieces.                                *)
(***************************************************************************)
EXTENDS Integers, Sequences, FiniteSets, TLC

NL == "\n"
BS == "\\"
\* the backtick character, which a string of the module cannot hold
BT == "bt"
SP == " "
NUL == "NUL"
\* the two bytes of a character that UTF-8 encodes in two bytes: the range
\* loops over a string stop at the first byte and read the character there
W1 == "w1"
W2 == "w2"

Min(a, b) == IF a < b THEN a ELSE b
Max(a, b) == IF a > b THEN a ELSE b

At(data, i) == data[i + 1]

\* data[a:b] of Go, for 0 <= a <= b <= len(data)
Slice(data, a, b) == SubSeq(data, a + 1, b)

\* string(runes): the bytes of a sequence of characters
RECURSIVE Bytes(_)
Bytes(runes) ==
    IF runes = <<>> THEN <<>>
    ELSE (IF Head(runes) = W1 THEN <<W1, W2>> ELSE <<Head(runes)>>) \o Bytes(Tail(runes))

\* the index is inside a character: "for i, rn := range data" does not stop there
Continuation(data, i) == At(data, i) = W2

Contains(list, x) == \E k \in 1..Len(list) : list[k] = x

\* unicode.IsSpace on the characters of the model
IsSpace(rn) == rn \in {SP, NL, "\t", "\r"}

RECURSIVE TrimLeft(_)
TrimLeft(s) == IF s # <<>> /\ IsSpace(Head(s)) THEN TrimLeft(Tail(s)) ELSE s

RECURSIVE TrimRight(_)
TrimRight(s) ==
    IF s # <<>> /\ IsSpace(s[Len(s)]) THEN TrimRight(SubSeq(s, 1, Len(s) - 1)) ELSE s

\* strings.TrimSpace
TrimSpace(s) == TrimRight(TrimLeft(s))

----------------------------------------------------------------------------
(* The tag catalog: the configuration of MarkdownTags, in catalog order.   *)

NoAction == <<>>

Generic(triggers, closing, onNewline, transformation, insertion, window) ==
    [kind |-> "generic", Triggers |-> triggers, TriggersClosing |-> closing,
     OnNewline |-> onNewline, DisableSkip |-> FALSE,
     Transformation |-> transformation, Insertion |-> insertion, Window |-> window]

MarkdownTags == <<
    Generic(<< <<BT, BT, BT, "g", "o">> >>, << <<NL, BT, BT, BT>> >>, TRUE, "code_go", <<>>, <<>>),
    Generic(<< <<BT, BT, BT>> >>, <<>>, TRUE, "nil", <<"<pre><code>", "</code></pre>">>, <<>>),
    Generic(<< <<BT>> >>, <<>>, FALSE, "nil", <<"<code>", "</code>">>, <<>>),
    Generic(<< <<"#", "#", "#", "#", SP>> >>, << <<NL>> >>, TRUE, "nil", <<"<h4>", "</h2>\n">>, <<NL>>),
    Generic(<< <<"#", "#", "#", SP>> >>, << <<NL>> >>, TRUE, "nil", <<"<h3>", "</h2>\n">>, <<NL>>),
    Generic(<< <<"#", "#", SP>> >>, << <<NL>> >>, TRUE, "nil", <<"<h2>", "</h2>\n">>, <<NL>>),
    Generic(<< <<"#", SP>> >>, << <<NL>> >>, TRUE, "nil", <<"<h1>", "</h1>\n">>, <<NL>>),
    Generic(<< <<">", SP>> >>, << <<NL>> >>, TRUE, "nil", <<"<blockquote>", "</blockquote>\n">>, <<NL>>),
    [kind |-> "link"],
    Generic(<< <<"*", "*", "*">>, <<"_", "_", "_">> >>, <<>>, FALSE, "nil", <<"<b><i>", "</i></b>">>, <<>>),
    Generic(<< <<"*", "*">>, <<"_", "_">> >>, <<>>, FALSE, "nil", <<"<b>", "</b>">>, <<>>),
    Generic(<< <<"*">>, <<"_">> >>, <<>>, FALSE, "nil", <<"<i>", "</i>">>, <<>>)
>>

NumTags == Len(MarkdownTags)

MarkdownTagParagraph == <<"<p>", "</p>">>

\* the unexported fields of a scanner as the package initialises them
InitTag(cfg) ==
    IF cfg.kind = "link"
    THEN [skip |-> FALSE, openHint |-> FALSE, openLink |-> FALSE, openIndex |-> 0,
          window |-> <<NUL, NUL>>]
    ELSE [Window |-> cfg.Window, opened |-> FALSE, openedWith |-> <<>>,
          openedIndex |-> 0, skip |-> FALSE, oldline |-> FALSE]

InitTags == [k \in 1..NumTags |-> InitTag(MarkdownTags[k])]

\* tag.TriggersClosing after the first Next: the triggers when none is configured
TriggersClosing(cfg) ==
    IF Len(cfg.TriggersClosing) = 0 THEN cfg.Triggers ELSE cfg.TriggersClosing

\* tag.windowSize after the first Next
windowSize(cfg) == Max(Len(cfg.Triggers[1]), Len(TriggersClosing(cfg)[1]))

Action(index, insertion, transformation, skipRange, isNewBlock) ==
    [Index |-> index, Insertion |-> insertion, Transformation |-> transformation,
     SkipRange |-> skipRange, IsNewBlock |-> isNewBlock]

\* the value of tag.oldline when Next returns (the deferred assignments)
Oldline(old, rn) == IF rn = NL THEN FALSE ELSE IF IsSpace(rn) THEN TRUE ELSE old

\* the window after the character is appended and the window is cut to size
Shift(win, rn, size) ==
    LET w == Append(win, rn) IN IF Len(w) > size THEN Tail(w) ELSE w

\* Opens without the "!tag.opened" of its case: an open tag reopens on its
\* closing delimiter
OpensWhileOpen(cfg, tag, window) ==
    /\ Contains(cfg.Triggers, window)
    /\ (~cfg.OnNewline \/ ~tag.oldline)

\* whether an idle tag opens on this window
Opens(cfg, tag, window) ==
    /\ ~tag.opened
    /\ Contains(cfg.Triggers, window)
    /\ (~cfg.OnNewline \/ ~tag.oldline)

\* Closes without the comparison of openedWith: any variant closes
ClosesAnyVariant(cfg, tag, window, smallerWindow) ==
    /\ tag.opened
    /\ Contains(TriggersClosing(cfg), smallerWindow)

\* whether an open tag closes on this window
Closes(cfg, tag, window, smallerWindow) ==
    /\ tag.opened
    /\ Contains(TriggersClosing(cfg), smallerWindow)
    /\ (Len(cfg.Triggers) = 1 \/ tag.openedWith = window)

\* the actions a closing generic tag returns
ClosingActions(cfg, tag, index, smallerWindow) ==
    IF cfg.Transformation # "nil"
    THEN << Action(0, <<>>, cfg.Transformation, <<tag.openedIndex, index + 1>>, cfg.OnNewline) >>
    ELSE << Action(tag.openedIndex, <<cfg.Insertion[1]>>, "nil",
                   <<tag.openedIndex, tag.openedIndex + Len(tag.openedWith)>>, cfg.OnNewline),
            Action(index, <<cfg.Insertion[2]>>, "nil",
                   <<index + 1 - Len(smallerWindow), index + 1>>, cfg.OnNewline) >>

\* MarkdownGenericTag.Next: the scanner after the call and the actions returned
GenericNext(cfg, tag, index, rn) ==
    LET size == windowSize(cfg)
        runes == Shift(tag.Window, rn, size)
        window == Bytes(runes)
        smallerWindow ==
            SubSeq(window, Min(size - Len(TriggersClosing(cfg)[1]), Len(runes)) + 1, Len(window))
        seen == [tag EXCEPT !.Window = runes, !.oldline = Oldline(tag.oldline, rn)]
    IN  IF tag.skip
        THEN [tag |-> [seen EXCEPT !.skip = FALSE], out |-> NoAction]
        ELSE IF ~cfg.DisableSkip /\ rn = BS
        THEN [tag |-> [seen EXCEPT !.skip = TRUE], out |-> NoAction]
        ELSE IF Opens(cfg, tag, window)
        THEN [tag |-> [seen EXCEPT !.opened = TRUE, !.openedWith = window,
                                   !.openedIndex = index + 1 - Len(window)],
              out |-> NoAction]
        ELSE IF Closes(cfg, tag, window, smallerWindow)
        THEN [tag |-> [seen EXCEPT !.opened = FALSE],
              out |-> ClosingActions(cfg, tag, index, smallerWindow)]
        ELSE [tag |-> seen, out |-> NoAction]

\* MarkdownTagLink.Next
LinkNext(tag, index, rn) ==
    LET window == <<tag.window[2], rn>>
        seen == [tag EXCEPT !.window = window]
    IN  IF tag.openLink /\ rn = ")"
        THEN [tag |-> [seen EXCEPT !.openLink = FALSE],
              out |-> << Action(tag.openIndex, <<>>, "link", <<tag.openIndex, index + 1>>, FALSE) >>]
        ELSE IF tag.openLink
        THEN [tag |-> seen, out |-> NoAction]
        ELSE IF tag.skip
        THEN [tag |-> [seen EXCEPT !.skip = FALSE], out |-> NoAction]
        ELSE IF rn = BS
        THEN [tag |-> [seen EXCEPT !.skip = TRUE], out |-> NoAction]
        ELSE IF tag.openHint /\ window[1] = "]" /\ window[2] = "("
        THEN [tag |-> [seen EXCEPT !.openHint = FALSE, !.openLink = TRUE], out |-> NoAction]
        ELSE IF tag.openHint /\ window[1] = "]"
        THEN [tag |-> [seen EXCEPT !.openHint = FALSE], out |-> NoAction]
        ELSE IF tag.openHint
        THEN [tag |-> seen, out |-> NoAction]
        ELSE IF rn = "["
        THEN [tag |-> [seen EXCEPT !.openHint = TRUE, !.openIndex = index], out |-> NoAction]
        ELSE [tag |-> seen, out |-> NoAction]

\* tag.Next of the k-th catalog entry
TagNext(k, tag, index, rn) ==
    IF MarkdownTags[k].kind = "link"
    THEN LinkNext(tag, index, rn)
    ELSE GenericNext(MarkdownTags[k], tag, index, rn)

----------------------------------------------------------------------------
(* Transformations: ExecuteSchema on the templates of the catalog.         *)

\* the first index at or after i where sep occurs in s (Go index), or -1
RECURSIVE IndexFrom(_, _, _)
IndexFrom(s, sep, i) ==
    IF i + Len(sep) > Len(s) THEN -1
    ELSE IF Slice(s, i, i + Len(sep)) = sep THEN i
    ELSE IndexFrom(s, sep, i + 1)

\* strings.Cut
Cut(s, sep) ==
    LET i == IndexFrom(s, sep, 0)
    IN  IF i < 0 THEN <<s, <<>>, FALSE>>
        ELSE <<Slice(s, 0, i), Slice(s, i + Len(sep), Len(s)), TRUE>>

\* the "transform" function of the code_go template: the text between the
\* opening trigger and the closing fence, trimmed
TransformGo(target) ==
    IF 5 > Len(target) - 3
    THEN [err |-> TRUE, out |-> <<>>]
    ELSE [err |-> FALSE,
          out |-> <<"<div><pre><code>">> \o TrimSpace(Slice(target, 5, Len(target) - 3))
                  \o <<"</code></pre></div>">>]

\* MarkdownTagLink.Parser cutting data instead of data[1:len(data)-1]: the
\* outer bracket and parenthesis stay in the anchor
TransformLinkUncut(target) ==
    LET cut == Cut(target, <<"]", "(">>)
    IN  [err |-> FALSE, out |-> <<"<a href=">> \o cut[2] \o <<">">> \o cut[1] \o <<"</a>">>]

\* MarkdownTagLink.Parser: the anchor built from "[hint](link)".  The schema
\* with hint and link in it is parsed as a template: "{{" in either opens a
\* template action, which the "<" or the quote after it ends with a parse
\* error (the texts of the model have no "}" to close the action); the panic
\* of template.Must, like the one of the slice expression, is returned by
\* the executing template as an error
TransformLink(target) ==
    IF 1 > Len(target) - 1 \/ IndexFrom(target, <<"{", "{">>, 0) >= 0
    THEN [err |-> TRUE, out |-> <<>>]
    ELSE LET cut == Cut(Slice(target, 1, Len(target) - 1), <<"]", "(">>)
         IN  [err |-> FALSE,
              out |-> <<"<a href=">> \o cut[2] \o <<">">> \o cut[1] \o <<"</a>">>]

\* ExecuteSchema dropping the error of templ.Execute
ExecuteSchemaSwallowed(transformation, target) ==
    [err |-> FALSE,
     out |-> IF transformation = "code_go" THEN TransformGo(target).out
             ELSE TransformLink(target).out]

\* ExecuteSchema(action.Transformation, {Children: target}); a panic of the
\* template's function is returned by the template as an error
ExecuteSchema(transformation, target) ==
    IF transformation = "code_go" THEN TransformGo(target) ELSE TransformLink(target)

----------------------------------------------------------------------------
(* The pass orchestrator, markdownApplyTags.  A call's arrays are          *)
(* functions on 0..len(data)-1.  An index outside an array is Go's         *)
(* run-time panic, which ends the call.                                    *)

InRange(i, n) == 0 <= i /\ i < n

MarkRange(bits, a, b) == [i \in DOMAIN bits |-> bits[i] \/ (a <= i /\ i < b)]

\* whether the loop "for i := a; i < b; i++ { skip[i] = true }" panics
MarkPanics(a, b, n) == a < b /\ (a < 0 \/ b > n)

\* the body of the loop over the actions one Next returned, for one action;
\* acc holds skip, actions, from, to, isNewlineBased and the way the call ended
ApplyAction(acc, action, data) ==
    LET n == Len(data)
        ranged == Len(action.SkipRange) > 1
        a == IF ranged THEN action.SkipRange[1] ELSE 0
        b == IF ranged THEN action.SkipRange[2] ELSE 0
        marked == IF ranged
                  THEN [acc EXCEPT !.skip = MarkRange(acc.skip, a, b),
                                   !.from = Min(acc.from, a), !.to = Max(acc.to, b)]
                  ELSE acc
        block == [marked EXCEPT !.isNewlineBased = acc.isNewlineBased \/ action.IsNewBlock]
    IN  IF acc.err # "nil" THEN acc
        ELSE IF ranged /\ MarkPanics(a, b, n) THEN [acc EXCEPT !.err = "panic"]
        ELSE IF action.Transformation = "nil"
        THEN IF ~InRange(action.Index, n) THEN [acc EXCEPT !.err = "panic"]
             ELSE [block EXCEPT !.actions[action.Index] = Append(@, action)]
        ELSE IF a < 0 \/ b > n \/ a > b THEN [acc EXCEPT !.err = "panic"]
        ELSE LET transformed == ExecuteSchema(action.Transformation, Slice(data, a, b))
             IN  IF transformed.err THEN [acc EXCEPT !.err = "error"]
                 ELSE IF ~InRange(action.Index, n) \/ ~InRange(a, n)
                 THEN [acc EXCEPT !.err = "panic"]
                 ELSE [block EXCEPT !.actions[a] =
                          Append(acc.actions[action.Index],
                                 Action(a, transformed.out, "nil", <<>>, FALSE))]

RECURSIVE ApplyActions(_, _, _)
ApplyActions(acc, out, data) ==
    IF out = <<>> THEN acc
    ELSE ApplyActions(ApplyAction(acc, Head(out), data), Tail(out), data)

\* math.MaxInt, cut to the largest integer of the model checker
MaxInt == 2147483647

\* one iteration of the inner loop of markdownApplyTags at an index that is
\* not skipped: c is the call, out the actions tag.Next returned
ApplyNext(c, out) ==
    LET acc == ApplyActions([skip |-> c.skip, actions |-> c.actions, from |-> MaxInt, to |-> 0,
                             isNewlineBased |-> FALSE, err |-> "nil"], out, c.data)
    IN  IF acc.err # "nil"
        THEN [c EXCEPT !.err = acc.err]
        ELSE IF acc.isNewlineBased /\ MarkPanics(acc.from, acc.to, Len(c.data))
        THEN [c EXCEPT !.err = "panic"]
        ELSE [c EXCEPT !.skip = acc.skip, !.actions = acc.actions,
                       !.paragraphs = IF acc.isNewlineBased /\ acc.from < acc.to
                                      THEN MarkRange(c.paragraphs, acc.from, acc.to)
                                      ELSE c.paragraphs]

Least(S) == CHOOSE j \in S : \A x \in S : j <= x

\* the two loops without "if skip[index] { continue }"
AdvanceOverSkipped(k, i, skip, n) ==
    IF k <= NumTags /\ i < n THEN <<k, i>>
    ELSE IF k < NumTags /\ n > 0 THEN <<k + 1, 0>>
    ELSE <<NumTags + 1, 0>>

\* the next pair (tag, index) of the two loops whose index is not skipped,
\* from (k, i) on; the tag is NumTags + 1 when the loops are over
Advance(k, i, skip, n) ==
    LET rest == {j \in i..(n - 1) : ~skip[j]}
        all == {j \in 0..(n - 1) : ~skip[j]}
    IN  IF k <= NumTags /\ rest # {} THEN <<k, Least(rest)>>
        ELSE IF k < NumTags /\ all # {} THEN <<k + 1, Least(all)>>
        ELSE <<NumTags + 1, 0>>

----------------------------------------------------------------------------
(* The paragraph synthesizer, markdownApplyParagraphs.                     *)

\* the value of "to" when the inner loop ends, counting up from to
RECURSIVE RunEnd(_, _, _)
RunEnd(to, paragraphs, data) ==
    IF to >= Len(data) THEN to
    ELSE IF paragraphs[to] \/ Slice(data, to - 1, to + 1) = <<NL, NL>> THEN to
    ELSE RunEnd(to + 1, paragraphs, data)

\* the outer loop from "from" on; ap holds actions and paragraphs
RECURSIVE Paragraphs(_, _, _)
Paragraphs(from, ap, data) ==
    IF from >= Len(data) THEN ap
    ELSE IF ap.paragraphs[from] THEN Paragraphs(from + 1, ap, data)
    ELSE LET stop == RunEnd(from + 1, ap.paragraphs, data)
             to == stop - 1
             seen == [i \in DOMAIN ap.paragraphs |-> ap.paragraphs[i] \/ (from <= i /\ i < to)]
             open == Action(from, <<MarkdownTagParagraph[1]>>, "nil", <<>>, FALSE)
             close == Action(to, <<MarkdownTagParagraph[2]>>, "nil", <<>>, FALSE)
             opened == [ap.actions EXCEPT ![from] = <<open>> \o @]
         IN  IF TrimSpace(Slice(data, from, to)) = <<>>
             THEN Paragraphs(to + 1, [ap EXCEPT !.paragraphs = seen], data)
             ELSE Paragraphs(to + 1,
                             [actions |-> [opened EXCEPT ![to] = Append(@, close)],
                              paragraphs |-> seen], data)

markdownApplyParagraphs(c) ==
    LET ap == Paragraphs(0, [actions |-> c.actions, paragraphs |-> c.paragraphs], c.data)
    IN  [c EXCEPT !.actions = ap.actions, !.paragraphs = ap.paragraphs]

----------------------------------------------------------------------------
(* The renderer, the last loop of Markdown.                                *)

\* InsertSorted of a sort that is not stable: x goes ahead of the entries
\* with its Index, which puts the last queued first
RECURSIVE InsertSortedUnstable(_, _)
InsertSortedUnstable(sorted, x) ==
    IF sorted = <<>> THEN <<x>>
    ELSE IF Head(sorted).Index > x.Index
    THEN <<Head(sorted)>> \o InsertSortedUnstable(Tail(sorted), x)
    ELSE <<x>> \o sorted

\* x put into a list sorted by descending Index, after the entries that do
\* not come after it (slices.SortStableFunc with -cmp.Compare)
RECURSIVE InsertSorted(_, _)
InsertSorted(sorted, x) ==
    IF sorted = <<>> THEN <<x>>
    ELSE IF Head(sorted).Index >= x.Index THEN <<Head(sorted)>> \o InsertSorted(Tail(sorted), x)
    ELSE <<x>> \o sorted

RECURSIVE SortStable(_)
SortStable(list) ==
    IF list = <<>> THEN <<>>
    ELSE InsertSorted(SortStable(SubSeq(list, 1, Len(list) - 1)), list[Len(list)])

RECURSIVE Insertions(_)
Insertions(list) ==
    IF list = <<>> THEN <<>> ELSE Head(list).Insertion \o Insertions(Tail(list))

\* RenderAt with the test of skip[i] inverted: the suppressed characters are
\* the ones emitted
RenderAtSkipped(c, i) ==
    Insertions(SortStable(c.actions[i])) \o (IF c.skip[i] THEN <<At(c.data, i)>> ELSE <<>>)

\* RenderAt without the test of skip[i]: every character is emitted
RenderAtAll(c, i) == Insertions(SortStable(c.actions[i])) \o <<At(c.data, i)>>

\* what the loop appends to result at index i
RenderAt(c, i) ==
    Insertions(SortStable(c.actions[i]))
        \o (IF c.skip[i] THEN <<>> ELSE Bytes(<<At(c.data, i)>>))

\* the loop over the characters of data, from byte index i on
RECURSIVE RenderFrom(_, _)
RenderFrom(c, i) ==
    IF i >= Len(c.data) THEN <<>>
    ELSE IF Continuation(c.data, i) THEN RenderFrom(c, i + 1)
    ELSE RenderAt(c, i) \o RenderFrom(c, i + 1)

\* fmt.Sprintf("<div>%s</div>", string(result))
Render(c) == <<"<div>">> \o RenderFrom(c, 0) \o <<"</div>">>

----------------------------------------------------------------------------
(* Markdown, step by step.  A call is a record: where it stands (pc, and   *)
(* the loop variables tag and index while in markdownApplyTags), its text, *)
(* its three arrays, and what it returned.                                 *)

Idle == [pc |-> "idle", data |-> <<>>, skip |-> <<>>, actions |-> <<>>, paragraphs |-> <<>>,
         tag |-> 0, index |-> 0, result |-> <<>>, err |-> "nil"]

\* the indices the inner loop of markdownApplyTags does nothing at: the
\* range loop does not stop inside a character, and the body skips skip[index]
Unvisited(c) ==
    [i \in 0..(Len(c.data) - 1) |-> c.skip[i] \/ Continuation(c.data, i)]

\* the call with its loops moved on to (k, i), or past markdownApplyTags
Moved(c, k, i) ==
    LET at == Advance(k, i, Unvisited(c), Len(c.data))
    IN  [c EXCEPT !.tag = at[1], !.index = at[2],
                  !.pc = IF at[1] > NumTags THEN "paragraphs" ELSE "tags"]

\* Markdown(data) up to the first tag.Next: the three arrays are allocated
Entered(data) ==
    Moved([Idle EXCEPT !.data = data,
                       !.skip = [i \in 0..(Len(data) - 1) |-> FALSE],
                       !.actions = [i \in 0..(Len(data) - 1) |-> <<>>],
                       !.paragraphs = [i \in 0..(Len(data) - 1) |-> FALSE]], 1, 0)

\* "return "", err", or the panic leaving Markdown
Failed(c, err) == [c EXCEPT !.pc = "done", !.err = err, !.result = <<>>]

\* one tag.Next of the call and the loop over its actions: the catalog and
\* the call afterwards
NextStep(scanners, c) ==
    LET k == c.tag
        r == TagNext(k, scanners[k], c.index, At(c.data, c.index))
        applied == ApplyNext(c, r.out)
    IN  [tags |-> [scanners EXCEPT ![k] = r.tag],
         call |-> IF applied.err # "nil" THEN Failed(c, applied.err)
                  ELSE Moved(applied, k, c.index + 1)]

Synthesized(c) == [markdownApplyParagraphs(c) EXCEPT !.pc = "render"]

Returned(c) == [c EXCEPT !.pc = "done", !.result = Render(c)]

\* the rest of the pass of tag k of a call run alone; s holds tags and call
RECURSIVE RunPass(_, _)
RunPass(s, k) ==
    IF s.call.pc = "tags" /\ s.call.tag = k THEN RunPass(NextStep(s.tags, s.call), k) ELSE s

\* the rest of markdownApplyTags of a call run alone
RECURSIVE RunPasses(_)
RunPasses(s) == IF s.call.pc = "tags" THEN RunPasses(RunPass(s, s.call.tag)) ELSE s

\* a whole call run alone on the catalog state scanners, from where c stands
Run(scanners, c) ==
    LET s == RunPasses([tags |-> scanners, call |-> c])
        synthesized == IF s.call.pc = "paragraphs" THEN Synthesized(s.call) ELSE s.call
    IN  [tags |-> s.tags,
         call |-> IF synthesized.pc = "render" THEN Returned(synthesized) ELSE synthesized]

\* Markdown(data) as the first call on a freshly initialised catalog
MarkdownFresh(data) ==
    LET c == Run(InitTags, Entered(data)).call IN [result |-> c.result, err |-> c.err]

----------------------------------------------------------------------------
(* The texts of the model.                                                 *)

MaxLen == 3
MaxPlain == 5
MaxContent == 2
SeqLen == 2
ParLen == 2
MaxCalls == 2
MaxSwitches == 2
MaxWide == 3

Strings(S, n) == UNION {[1..k -> S] : k \in 0..n}

\* every character the scanners tell apart, and one ordinary letter
Alphabet == {"a", SP, NL, "*", "_", BS, "#", ">", BT, "[", "]", "(", ")"}

\* the characters of running text
PlainChars == {"a", SP, NL}

Content == Strings(PlainChars, MaxContent)

Fence == <<BT, BT, BT>>

Hints == {<<>>, <<"g", "o">>, <<"a">>, <<"g", "o", "a">>}

Bodies == {x \in Content : x # <<>> /\ TrimSpace(x) = x}

\* a fenced block with a language hint: fence, hint, line break, body, line
\* break, fence
Fenced(h, body) == Fence \o h \o <<NL>> \o body \o <<NL>> \o Fence

\* two go-fenced blocks, the first at index 0 or after a line of text
TwoFences ==
    {before \o Fenced(<<"g", "o">>, <<"a">>) \o <<NL>> \o Fenced(<<"g", "o">>, body) :
        before \in {<<>>, <<"a", NL>>}, body \in Bodies}

\* a link "[t](u)"
Link(t, u) == <<"[">> \o t \o <<"]", "(">> \o u \o <<")">>

\* links whose display text is an inline-code span
CodeLinks ==
    {Link(<<BT>> \o x \o <<BT>>, u) : x \in {<<>>, <<"a">>}, u \in {<<>>, <<"a">>}}

\* links with the opening delimiter of a template action in them
BraceLinks == {Link(t, u) : t \in Strings({"a", "{"}, 2), u \in {<<>>, <<"{", "{">>}}

\* a heading trigger and a heading text, with what may come before them (a
\* line, or a character on the same line) and after them
Headings ==
    {before \o trigger \o x \o after :
        before \in {<<>>, <<"a", NL>>, <<"a">>}, trigger \in {<<"#", SP>>, <<"#", "#", SP>>},
        x \in {y \in Content : y # <<>> /\ NL \notin {y[k] : k \in 1..Len(y)}},
        after \in {<<>>, <<NL>>, <<NL, "a">>}}

\* a second-level heading line followed by a line with a trigger of a later
\* catalog entry
TwoHeadings ==
    {<<"#", "#", SP>> \o x \o <<NL>> \o trigger \o <<"a", NL>> :
        x \in {<<"a">>, <<"a", SP, "a">>}, trigger \in {<<"#", SP>>, <<">", SP>>}}

\* x between two escaped delimiters
Escaped == {<<BS, "*">> \o x \o <<BS, "*">> : x \in Content}

\* x in an italic pair of one delimiter character inside a bold pair of the other
Nested(bold, italic, x) == <<bold, bold, italic>> \o x \o <<italic, bold, bold>>

NestedTexts ==
    {Nested("*", "_", x) : x \in Content} \cup {Nested("_", "*", x) : x \in Content}

\* delimiters of a heading and of a bold pair with an inline code span,
\* claimed by an earlier scanner, between or next to their characters
Gapped ==
    {<<"#", BT, BT, SP, "a", NL>>, <<"*", BT, BT, "*", "a", "*", "*">>,
     <<"*", "*", "a", "*", BT, BT, "*">>, <<BT, BT, "*", "*", "a", "*", "*", BT, BT>>}

\* a bold pair whose first delimiter character is escaped
EscapedPairs == {<<BS, d, d>> \o x \o <<d, d>> : d \in {"*", "_"}, x \in {<<>>, <<"a">>}}

\* links with one escaped bracket
EscapedBrackets ==
    {<<BS>> \o Link(<<"a">>, <<"a">>), <<"[", "a", BS, "]", "(", "a", ")">>,
     <<"[", BS, "]", "(", ")">>}

\* a hint abandoned on a bare "]", then a link
Abandoned ==
    {<<"[", "a", "]">> \o between \o Link(<<"a">>, <<"a">>) : between \in {<<>>, <<SP>>, <<"a">>}}

\* fenced blocks with the delimiters of later catalog entries in the body
FencedMarkup ==
    {Fenced(h, body) : h \in Hints,
                       body \in {<<"*", "a", "*">>, <<"#", SP, "a">>, <<BT, "a", BT>>}}

\* a completed bold-italic pair of "*" whose opening delimiter lies between
\* two "_", with a "__" after the pair
Straddled == {<<"_", "*", "*", "*", "_", "a", "*", "*", "*", "_", "_">>}

\* texts with a two-byte character: every text of at most MaxWide
\* characters over a small alphabet, and heading lines
WideTexts ==
    {Bytes(x) : x \in Strings({"a", W1, NL, "*"}, MaxWide)}
        \cup {Bytes(<<"#", SP>> \o x \o <<NL>>) : x \in Strings({"a", W1}, 2)}

\* a bold pair and an italic pair that overlap: the italic pair opens
\* inside the bold pair and closes after it
Overlapping == {<<"*", "*", "a", "_", "a", "*", "*", "a", "_">>}

\* heading lines of the third and the fourth level
DeepHeadings ==
    {<<"#", "#", "#", SP, "a", NL>>, <<"#", "#", "#", "#", SP, "a", NL>>}

\* the texts a goroutine may pass to Markdown
Texts(m) ==
    IF m = "single"
    THEN Strings(Alphabet, MaxLen) \cup Strings(PlainChars, MaxPlain)
         \cup {Fenced(h, body) : h \in Hints, body \in Bodies}
         \cup {Link(t, u) : t \in Content, u \in Content}
         \cup NestedTexts \cup Headings \cup Escaped \cup CodeLinks \cup BraceLinks \cup TwoFences
         \cup TwoHeadings \cup Gapped \cup EscapedPairs \cup EscapedBrackets \cup Abandoned
         \cup FencedMarkup \cup Straddled \cup Overlapping \cup DeepHeadings
    ELSE IF m = "wide" THEN WideTexts
    ELSE IF m = "seq" THEN Strings({"a", "*", "#", SP, NL, "[", ")"}, SeqLen)
    ELSE Strings({"a", "*"}, ParLen)

----------------------------------------------------------------------------
(* RpsLimiterClients (src/middleware.go).  Time is counted in ticks of the *)
(* clock time.Now reads.  limits is the Go map: a function whose domain is *)
(* the set of the keys the map holds.  rate runs under limit.mutex from    *)
(* its first statement to its return, so one call is one step.             *)

Quota == 2
Timeout == 2
MaxTime == 4
MaxRequests == 5

\* the RemoteAddr values of the requests
Clients == {"c1", "c2"}

\* ExpiredAt taking "clean.After.Before(current)" for the test of the loop
ExpiredBefore(clean, current) == clean.After < current

\* the loop of rate goes past the entry: not clean.After.After(current)
ExpiredAt(clean, current) == ~(clean.After > current)

\* how many entries at the head of cleans the loop of rate goes past
RECURSIVE Cleaned(_, _)
Cleaned(list, current) ==
    IF list = <<>> \/ ~ExpiredAt(Head(list), current) THEN 0
    ELSE 1 + Cleaned(Tail(list), current)

\* limit.limits[addr] as an expression: the zero value when the map has no
\* entry for addr
Read(counts, addr) == IF addr \in DOMAIN counts THEN counts[addr] ELSE 0

\* limit.limits[addr] = count
Put(counts, addr, count) ==
    [c \in DOMAIN counts \cup {addr} |-> IF c = addr THEN count ELSE counts[c]]

\* delete(limit.limits, addr)
Delete(counts, addr) == [c \in DOMAIN counts \ {addr} |-> counts[c]]

\* Decremented without the delete: a count that reaches 0 stays in the map
RECURSIVE DecrementedKept(_, _, _)
DecrementedKept(counts, list, n) ==
    IF n = 0 THEN counts
    ELSE LET addr == Head(list).RemoteAddr
         IN  DecrementedKept(Put(counts, addr, Read(counts, addr) - 1), Tail(list), n - 1)

\* limits after the decrements of the first n entries of cleans
RECURSIVE Decremented(_, _, _)
Decremented(counts, list, n) ==
    IF n = 0 THEN counts
    ELSE LET addr == Head(list).RemoteAddr
             lowered == Put(counts, addr, Read(counts, addr) - 1)
         IN  Decremented(IF lowered[addr] = 0 THEN Delete(lowered, addr) ELSE lowered,
                         Tail(list), n - 1)

\* rate counting every client on the counter of one
rateShared(counts, list, addr, current) ==
    LET n == Cleaned(list, current)
        raised == [c \in Clients |-> Read(counts, c) + 1]
        lowered == [c \in Clients |-> raised[c] - n]
    IN  [limits |-> lowered,
         cleans |-> Append(SubSeq(list, n + 1, Len(list)),
                           [RemoteAddr |-> addr, After |-> current + Timeout]),
         count |-> lowered[addr]]

\* limit.rate(addr) at the time current: limits and cleans afterwards and
\* the count returned
rate(counts, list, addr, current) ==
    LET n == Cleaned(list, current)
        lowered == Decremented(Put(counts, addr, Read(counts, addr) + 1), list, n)
    IN  [limits |-> lowered,
         cleans |-> Append(SubSeq(list, n + 1, Len(list)),
                           [RemoteAddr |-> addr, After |-> current + Timeout]),
         count |-> Read(lowered, addr)]

----------------------------------------------------------------------------
(* Auth (src/auth.go): the middleware that guards the paths under a        *)
(* prefix.  A path is a sequence of characters, "A" the one upper-case     *)
(* letter of the model.                                                    *)

MaxPath == 2
MaxHandled == 2

\* strings.ToLower
ToLower(str) == [k \in 1..Len(str) |-> IF str[k] = "A" THEN "a" ELSE str[k]]

\* strings.HasPrefix
HasPrefix(str, prefix) ==
    Len(prefix) <= Len(str) /\ SubSeq(str, 1, Len(prefix)) = prefix

AuthPaths == Strings({"a", "A", "b"}, MaxPath)

AuthPrefixes == Strings({"a", "A", "b"}, 1)

\* no middleware yet
NoAuth == [built |-> FALSE, prefix |-> <<>>]

\* Auth(prefix, authed): the prefix the returned middleware keeps
Auth(prefix) == [built |-> TRUE, prefix |-> ToLower(prefix)]

\* the handler the middleware returns, called with a request of this path
\* for which authed(req) is authed: who answers it
Guarded(g, path, authed) ==
    IF HasPrefix(ToLower(path), g.prefix) /\ authed THEN "unauthorized" ELSE "handler"

----------------------------------------------------------------------------
(* SimpleAuth (src/auth.go): HandleLogin and isAuthed under usersMutex and *)
(* loginsMutex.  A sync.RWMutex is the set of the goroutines that hold it  *)
(* for reading and the goroutine that holds it for writing (0 for none).   *)

MaxCookies == 2
MaxRequestsEach == 2

\* the zero value of sync.RWMutex
Unlocked == [readers |-> {}, writer |-> 0]

\* RLock returns only while no goroutine holds the mutex for writing
CanRLock(mutex) == mutex.writer = 0

RLocked(mutex, p) == [mutex EXCEPT !.readers = @ \cup {p}]

RUnlocked(mutex, p) == [mutex EXCEPT !.readers = @ \ {p}]

\* Unlock of a mutex that is not locked for writing is a fatal error of the
\* runtime ("sync: Unlock of unlocked RWMutex"), which ends the process
UnlockFails(mutex) == mutex.writer = 0

WriteUnlocked(mutex) == [mutex EXCEPT !.writer = 0]

\* SimpleAuth before any request: both mutexes unlocked, no handler running
NoMutexes == [usersMutex |-> Unlocked, loginsMutex |-> Unlocked]

NoSession == [p \in {1, 2} |-> [pc |-> "idle", cookies |-> 0, calls |-> 0, result |-> "none"]]

----------------------------------------------------------------------------
(* The parallel directory walk: fs.WalkDir calls the wrapped callback for  *)
(* every entry, the wrapper adds one to the WaitGroup and starts a         *)
(* goroutine that runs the callback; errors and recovered panics go over   *)
(* an unbuffered channel to the caller, which ranges over the channel      *)
(* until a further goroutine, having waited for the WaitGroup, closes it.  *)

\* entries the walk visits, one goroutine each
MaxEntries == 2

Entries == 1..MaxEntries

\* the two places that build the walk
Sites == {"Nextjs", "walkDirFuncParallel"}

\* what the deferred function of a goroutine does, in order: the wrapper of
\* newParallelize calls wg.Done() and then recover(), the wrapper of
\* walkDirFuncParallel calls recover() and then wg.Done()
Deferred(site) ==
    IF site = "Nextjs" THEN <<"Done", "recover">> ELSE <<"recover", "Done">>

NoWorker == [pc |-> "none", outcome |-> "none", step |-> 0,
             decremented |-> FALSE, sent |-> FALSE]

NoWalk == [site |-> "none", pc |-> "idle", closer |-> "none", wg |-> 0,
           closed |-> FALSE, joined |-> <<>>, workers |-> [k \in Entries |-> NoWorker]]

\* the goroutine after one more step of its deferred function
Stepped(site, worker) ==
    [worker EXCEPT !.step = @ + 1,
                   !.pc = IF worker.step + 1 = Len(Deferred(site)) THEN "exited" ELSE "defer"]

----------------------------------------------------------------------------
(* The program: goroutines calling Markdown on the shared catalog, and     *)
(* requests passing the limiter.                                           *)

VARIABLES tags, call, left, mode, running, switches, limits, cleans, now, served,
          guard, handled, mutexes, login, walk

vars == <<tags, call, left, mode, running, switches, limits, cleans, now, served,
          guard, handled, mutexes, login, walk>>

limiter == <<limits, cleans, now, served>>

access == <<guard, handled>>

session == <<mutexes, login>>

markdown == <<tags, call, left, mode, running, switches>>

Procs == {1, 2}

\* the scheduler lets goroutine p take the next step; the model follows the
\* schedules of at most MaxSwitches changes of the running goroutine
Scheduled(p) ==
    /\ running \notin {0, p} => switches < MaxSwitches
    /\ running' = p
    /\ switches' = IF running \in {0, p} THEN switches ELSE switches + 1

Call(p) ==
    /\ call[p].pc \in {"idle", "done"}
    /\ left[p] > 0
    /\ \E data \in Texts(mode) : call' = [call EXCEPT ![p] = Entered(data)]
    /\ left' = [left EXCEPT ![p] = @ - 1]
    /\ Scheduled(p)
    /\ UNCHANGED <<tags, mode, limiter, access, session, walk>>

ApplyTags(p) ==
    /\ call[p].pc = "tags"
    /\ LET s == NextStep(tags, call[p])
       IN  /\ tags' = s.tags
           /\ call' = [call EXCEPT ![p] = s.call]
    /\ Scheduled(p)
    /\ UNCHANGED <<left, mode, limiter, access, session, walk>>

ApplyParagraphs(p) ==
    /\ call[p].pc = "paragraphs"
    /\ call' = [call EXCEPT ![p] = Synthesized(call[p])]
    /\ Scheduled(p)
    /\ UNCHANGED <<tags, left, mode, limiter, access, session, walk>>

Return(p) ==
    /\ call[p].pc = "render"
    /\ call' = [call EXCEPT ![p] = Returned(call[p])]
    /\ Scheduled(p)
    /\ UNCHANGED <<tags, left, mode, limiter, access, session, walk>>

Next == \E p \in Procs : Call(p) \/ ApplyTags(p) \/ ApplyParagraphs(p) \/ Return(p)

Start(m, calls) ==
    /\ tags = InitTags
    /\ call = [p \in Procs |-> Idle]
    /\ left = calls
    /\ mode = m
    /\ running = 0
    /\ switches = 0
    /\ limits = [c \in {} |-> 0]
    /\ cleans = <<>>
    /\ now = 0
    /\ served = <<>>
    /\ guard = NoAuth
    /\ handled = <<>>
    /\ mutexes = NoMutexes
    /\ login = NoSession
    /\ walk = NoWalk

\* one goroutine, one call on the fresh catalog
Init == Start("single", [p \in Procs |-> IF p = 1 THEN 1 ELSE 0])

Spec == Init /\ [][Next]_vars

\* one goroutine, MaxCalls calls one after the other
InitSeq == Start("seq", [p \in Procs |-> IF p = 1 THEN MaxCalls ELSE 0])

SpecSeq == InitSeq /\ [][Next]_vars

\* two goroutines of the parallel site walk, one call each
InitPar == Start("par", [p \in Procs |-> 1])

SpecPar == InitPar /\ [][Next]_vars

\* one goroutine, one call on the fresh catalog with a text that holds
\* two-byte characters
InitWide == Start("wide", [p \in Procs |-> IF p = 1 THEN 1 ELSE 0])

SpecWide == InitWide /\ [][Next]_vars

\* time.Now moves on
Tick ==
    /\ now < MaxTime
    /\ now' = now + 1
    /\ UNCHANGED <<limits, cleans, served, markdown, access, session, walk>>

\* the handler Apply returns, called with a request of RemoteAddr addr: the
\* request goes to the wrapped handler or to Handler429
Request(addr) ==
    /\ Len(served) < MaxRequests
    /\ LET r == rate(limits, cleans, addr, now)
       IN  /\ limits' = r.limits
           /\ cleans' = r.cleans
           /\ served' = Append(served, [addr |-> addr, at |-> now,
                                        passed |-> ~(r.count > Quota)])
    /\ UNCHANGED <<now, markdown, access, session, walk>>

NextRps == Tick \/ \E addr \in Clients : Request(addr)

\* a limiter with a positive Quota after Apply, no Markdown call
InitRps == Start("single", [p \in Procs |-> 0])

SpecRps == InitRps /\ [][NextRps]_vars

\* Auth(prefix, authed) builds the middleware
NewAuth ==
    /\ ~guard.built
    /\ \E prefix \in AuthPrefixes : guard' = Auth(prefix)
    /\ UNCHANGED <<handled, markdown, limiter, session, walk>>

\* a request passes the middleware: it reaches the wrapped handler or the
\* unauthorized handler
AuthRequest ==
    /\ guard.built
    /\ Len(handled) < MaxHandled
    /\ \E path \in AuthPaths, authed \in BOOLEAN :
           handled' = Append(handled, [path |-> path, authed |-> authed,
                                       to |-> Guarded(guard, path, authed)])
    /\ UNCHANGED <<guard, markdown, limiter, session, walk>>

NextAuth == NewAuth \/ AuthRequest

\* no Markdown call and no limiter: requests to a guarded handler
InitAuth == Start("single", [p \in Procs |-> 0])

SpecAuth == InitAuth /\ [][NextAuth]_vars

\* the runtime has not ended the process
Alive == \A p \in Procs : login[p].pc # "fatal"

\* the server calls the handler HandleLogin returns, in goroutine p
LoginRequest(p) ==
    /\ Alive
    /\ login[p].pc \in {"idle", "returned"}
    /\ login[p].calls < MaxRequestsEach
    /\ login' = [login EXCEPT ![p] = [pc |-> "decode", cookies |-> 0, calls |-> @.calls + 1,
                                       result |-> "none"]]
    /\ UNCHANGED <<mutexes, markdown, limiter, access, walk>>

\* json.NewDecoder(req.Body).Decode(&parsed): the body decodes or not
Decode(p) ==
    /\ Alive
    /\ login[p].pc = "decode"
    /\ \E decoded \in BOOLEAN :
           login' = [login EXCEPT ![p].pc = IF decoded THEN "users" ELSE "unlock"]
    /\ UNCHANGED <<mutexes, markdown, limiter, access, walk>>

\* auth.usersMutex.Unlock() of the error path, and "return err"
UsersUnlock(p) ==
    /\ Alive
    /\ login[p].pc = "unlock"
    /\ IF UnlockFails(mutexes.usersMutex)
       THEN /\ login' = [login EXCEPT ![p].pc = "fatal"]
            /\ UNCHANGED mutexes
       ELSE /\ login' = [login EXCEPT ![p].pc = "returned", ![p].result = "err"]
            /\ mutexes' = [mutexes EXCEPT !.usersMutex = WriteUnlocked(@)]
    /\ UNCHANGED <<markdown, limiter, access, walk>>

\* auth.usersMutex.RLock()
UsersRLock(p) ==
    /\ Alive
    /\ login[p].pc = "users"
    /\ CanRLock(mutexes.usersMutex)
    /\ mutexes' = [mutexes EXCEPT !.usersMutex = RLocked(@, p)]
    /\ login' = [login EXCEPT ![p].pc = "usersRead"]
    /\ UNCHANGED <<markdown, limiter, access, walk>>

\* the read of auth.users, auth.usersMutex.RUnlock(), and the return
UsersRUnlock(p) ==
    /\ Alive
    /\ login[p].pc = "usersRead"
    /\ mutexes' = [mutexes EXCEPT !.usersMutex = RUnlocked(@, p)]
    /\ login' = [login EXCEPT ![p].pc = "returned", ![p].result = "nil"]
    /\ UNCHANGED <<markdown, limiter, access, walk>>

\* the middleware calls isAuthed for a request with some mono_auth cookies
AuthedRequest(p) ==
    /\ Alive
    /\ login[p].pc \in {"idle", "returned"}
    /\ login[p].calls < MaxRequestsEach
    /\ \E cookies \in 0..MaxCookies :
           login' = [login EXCEPT ![p] = [pc |-> "cookie", cookies |-> cookies,
                                          calls |-> @.calls + 1, result |-> "none"]]
    /\ UNCHANGED <<mutexes, markdown, limiter, access, walk>>

\* the head of the loop over the cookies: no cookie left, or the cookie
\* parses or not
Cookie(p) ==
    /\ Alive
    /\ login[p].pc = "cookie"
    /\ IF login[p].cookies = 0
       THEN login' = [login EXCEPT ![p].pc = "returned", ![p].result = "false"]
       ELSE \E parsed \in BOOLEAN :
                login' = [login EXCEPT ![p].pc = IF parsed THEN "logins" ELSE "returned",
                                       ![p].result = IF parsed THEN @ ELSE "false"]
    /\ UNCHANGED <<mutexes, markdown, limiter, access, walk>>

\* auth.loginsMutex.RLock()
LoginsRLock(p) ==
    /\ Alive
    /\ login[p].pc = "logins"
    /\ CanRLock(mutexes.loginsMutex)
    /\ mutexes' = [mutexes EXCEPT !.loginsMutex = RLocked(@, p)]
    /\ login' = [login EXCEPT ![p].pc = "loginsRead"]
    /\ UNCHANGED <<markdown, limiter, access, walk>>

\* the read of auth.logins and auth.loginsMutex.RUnlock(): the user is
\* logged in and isAuthed returns, or the loop goes on
LoginsRUnlock(p) ==
    /\ Alive
    /\ login[p].pc = "loginsRead"
    /\ mutexes' = [mutexes EXCEPT !.loginsMutex = RUnlocked(@, p)]
    /\ \E ok \in BOOLEAN :
           login' = [login EXCEPT ![p].pc = IF ok THEN "returned" ELSE "cookie",
                                  ![p].cookies = IF ok THEN @ ELSE @ - 1,
                                  ![p].result = IF ok THEN "true" ELSE @]
    /\ UNCHANGED <<markdown, limiter, access, walk>>

NextLogin ==
    \E p \in Procs :
        \/ LoginRequest(p) \/ Decode(p) \/ UsersUnlock(p) \/ UsersRLock(p) \/ UsersRUnlock(p)
        \/ AuthedRequest(p) \/ Cookie(p) \/ LoginsRLock(p) \/ LoginsRUnlock(p)

\* no Markdown call and no limiter: requests to a SimpleAuth
InitLogin == Start("single", [p \in Procs |-> 0])

SpecLogin == InitLogin /\ [][NextLogin]_vars

\* a send on a closed channel is a panic; in a deferred function nothing
\* recovers it and the process ends
Walking == \A k \in Entries : walk.workers[k].pc # "crashed"

\* fs.WalkDir(dir, ".", parallelize(fn)) begins
WalkDir ==
    /\ walk.pc = "idle"
    /\ \E site \in Sites : walk' = [walk EXCEPT !.site = site, !.pc = "walking"]
    /\ UNCHANGED <<markdown, limiter, access, session>>

\* the wrapped callback for the next entry: wg.Add(1), go func() {...}()
Parallel ==
    /\ Walking
    /\ walk.pc = "walking"
    /\ \E k \in Entries :
           /\ walk.workers[k].pc = "none"
           /\ \A j \in 1..(k - 1) : walk.workers[j].pc # "none"
           /\ walk' = [walk EXCEPT !.wg = @ + 1, !.workers[k].pc = "run"]
    /\ UNCHANGED <<markdown, limiter, access, session>>

\* fs.WalkDir has returned (it visits the root at least); the caller starts
\* the goroutine that waits and closes, and ranges over the channel
Range ==
    /\ Walking
    /\ walk.pc = "walking"
    /\ walk.workers[1].pc # "none"
    /\ walk' = [walk EXCEPT !.pc = "ranging", !.closer = "waiting"]
    /\ UNCHANGED <<markdown, limiter, access, session>>

\* fn(path, d, err) in the goroutine: it returns nil or an error, or panics
Callback(k) ==
    /\ Walking
    /\ walk.workers[k].pc = "run"
    /\ \E outcome \in {"nil", "err", "panic"} :
           walk' = [walk EXCEPT !.workers[k].outcome = outcome,
                                !.workers[k].pc = IF outcome = "err" THEN "send" ELSE "defer"]
    /\ UNCHANGED <<markdown, limiter, access, session>>

\* errCh <- err: the channel has no buffer, so the send meets the receive of
\* the caller's range loop; on a closed channel it panics, in the body of
\* the goroutine (where the deferred function recovers it) or in the
\* deferred function itself
Send(k) ==
    /\ Walking
    /\ walk.workers[k].pc \in {"send", "sendPanic"}
    /\ IF walk.closed
       THEN walk' = [walk EXCEPT !.workers[k] =
                        IF @.pc = "send" THEN [@ EXCEPT !.outcome = "panic", !.pc = "defer"]
                                         ELSE [@ EXCEPT !.pc = "crashed"]]
       ELSE /\ walk.pc = "ranging"
            /\ walk' = [walk EXCEPT !.joined = Append(@, k),
                                    !.workers[k] =
                                        IF @.pc = "send"
                                        THEN [@ EXCEPT !.sent = TRUE, !.pc = "defer"]
                                        ELSE Stepped(walk.site, [@ EXCEPT !.sent = TRUE])]
    /\ UNCHANGED <<markdown, limiter, access, session>>

\* wg.Done() in the deferred function
WgDone(k) ==
    /\ Walking
    /\ walk.workers[k].pc = "defer"
    /\ Deferred(walk.site)[walk.workers[k].step + 1] = "Done"
    /\ walk' = [walk EXCEPT !.wg = @ - 1,
                            !.workers[k] = Stepped(walk.site, [@ EXCEPT !.decremented = TRUE])]
    /\ UNCHANGED <<markdown, limiter, access, session>>

\* recover() in the deferred function: a panic of the callback is to be sent
Recover(k) ==
    /\ Walking
    /\ walk.workers[k].pc = "defer"
    /\ Deferred(walk.site)[walk.workers[k].step + 1] = "recover"
    /\ walk' = [walk EXCEPT !.workers[k] =
                    IF @.outcome = "panic" /\ ~@.sent
                    THEN [@ EXCEPT !.pc = "sendPanic"]
                    ELSE Stepped(walk.site, @)]
    /\ UNCHANGED <<markdown, limiter, access, session>>

\* wg.Wait() returns in the closing goroutine
Wait ==
    /\ Walking
    /\ walk.closer = "waiting"
    /\ walk.wg = 0
    /\ walk' = [walk EXCEPT !.closer = "closing"]
    /\ UNCHANGED <<markdown, limiter, access, session>>

\* close(errCh)
Close ==
    /\ Walking
    /\ walk.closer = "closing"
    /\ walk' = [walk EXCEPT !.closer = "closed", !.closed = TRUE]
    /\ UNCHANGED <<markdown, limiter, access, session>>

\* the range loop ends on the closed channel and the caller returns the
\* errors it has joined
Join ==
    /\ Walking
    /\ walk.pc = "ranging"
    /\ walk.closed
    /\ walk' = [walk EXCEPT !.pc = "returned"]
    /\ UNCHANGED <<markdown, limiter, access, session>>

NextWalk ==
    \/ WalkDir \/ Parallel \/ Range \/ Wait \/ Close \/ Join
    \/ \E k \in Entries : Callback(k) \/ Send(k) \/ WgDone(k) \/ Recover(k)

\* no Markdown call, no limiter, no request: one parallel walk
InitWalk == Start("single", [p \in Procs |-> 0])

SpecWalk == InitWalk /\ [][NextWalk]_vars

----------------------------------------------------------------------------
(* What a finished call shows.                                             *)

Done(p) == call[p].pc = "done"

\* what Markdown returned to goroutine p
Outcome(p) == [result |-> call[p].result, err |-> call[p].err]

\* goroutine p has called tag.Next of the scanner its pass is on and is
\* about to call it again
InPass(p) ==
    /\ call[p].pc = "tags"
    /\ \E j \in 0..(call[p].index - 1) : ~call[p].skip[j]

Pieces(list) == {list[k] : k \in 1..Len(list)}

Without(list, S) == SelectSeq(list, LAMBDA x : x \notin S)

Occurs(data, sub) == IndexFrom(data, sub, 0) >= 0

\* the output between the outer container's two tags
Body(p) == SubSeq(call[p].result, 2, Len(call[p].result) - 1)

\* the result is one outer container around a body
Contained(p) ==
    /\ Len(call[p].result) >= 2
    /\ call[p].result[1] = "<div>"
    /\ call[p].result[Len(call[p].result)] = "</div>"

ParagraphMarkup == {MarkdownTagParagraph[1], MarkdownTagParagraph[2]}

\* the opening triggers of the catalog
CatalogTriggers ==
    UNION {IF MarkdownTags[k].kind = "link" THEN {<<"[">>} ELSE Pieces(MarkdownTags[k].Triggers)
           : k \in 1..NumTags}

TriggerFree(data) == \A trigger \in CatalogTriggers : ~Occurs(data, trigger)

\* how many actions with this insertion are anchored at the indices 0..i
Anchored(p, insertion, i) ==
    Cardinality({<<j, k>> \in (0..i) \X (1..8) :
                    /\ k <= Len(call[p].actions[j])
                    /\ call[p].actions[j][k].Insertion = <<insertion>>})

\* the character at index i is emitted between a paragraph-open and its
\* paragraph-close
Wrapped(p, i) ==
    /\ ~call[p].skip[i]
    /\ Anchored(p, MarkdownTagParagraph[1], i) > Anchored(p, MarkdownTagParagraph[2], i)

\* where the constructs begin that the scanners still hold open
Unclosed ==
    {IF MarkdownTags[k].kind = "link" THEN tags[k].openIndex ELSE tags[k].openedIndex :
         k \in {j \in 1..NumTags :
                   IF MarkdownTags[j].kind = "link" THEN tags[j].openHint \/ tags[j].openLink
                   ELSE tags[j].opened}}

----------------------------------------------------------------------------
(* C1: Markdown is deterministic across calls: whatever calls were made    *)
(* before, a call returns what it returns as the first call on a freshly   *)
(* initialised catalog.                                                    *)
C1_DeterministicAcrossCalls == \A p \in Procs : Done(p) => Outcome(p) = MarkdownFresh(call[p].data)

(* C2: concurrent calls are serialised on the shared catalog: two          *)
(* goroutines are never both in the middle of a pass over the same         *)
(* scanner instance.                                                       *)
C2_SerialisedOnCatalog ==
    \A p, q \in Procs : p # q /\ InPass(p) /\ InPass(q) => call[p].tag # call[q].tag

C4_UnterminatedVerbatim ==
    \A p \in Procs : Done(p) =>
        /\ call[p].err = "nil"
        /\ \A s \in Unclosed : \A i \in s..(Len(call[p].data) - 1) :
              /\ ~call[p].skip[i]
              /\ i > s => \A k \in 1..Len(call[p].actions[i]) :
                              Pieces(call[p].actions[i][k].Insertion) \subseteq ParagraphMarkup

HeadingTriggers == UNION {Pieces(MarkdownTags[k].Triggers) : k \in 4..7}

\* a heading trigger begins the line that starts at index s
HeadingLine(data, s) ==
    /\ s = 0 \/ At(data, s - 1) = NL
    /\ \E trigger \in HeadingTriggers :
          /\ s + Len(trigger) <= Len(data)
          /\ Slice(data, s, s + Len(trigger)) = trigger

\* the indices of the line that starts at s, without its line break
LineOf(data, s) == {i \in s..(Len(data) - 1) : \A j \in s..i : At(data, j) # NL}

(* C5: a heading line is never paragraph-wrapped: no character of a line   *)
(* that begins with a heading trigger is emitted inside a paragraph.       *)
C5_HeadingNeverWrapped ==
    \A p \in Procs : Done(p) /\ call[p].err = "nil" =>
        \A s \in 0..(Len(call[p].data) - 1) : HeadingLine(call[p].data, s) =>
            \A i \in LineOf(call[p].data, s) : ~Wrapped(p, i)

\* a non-empty text run: letters and spaces with a letter among them
Runs == {x \in Strings({"a", SP}, MaxPlain) : "a" \in Pieces(x)}

(* C6: two non-empty runs A and B separated by a blank line give exactly   *)
(* two paragraph wrappers, the first around every non-whitespace character *)
(* of A and the second around every one of B, also when B ends the text    *)
(* without a line break.                                                   *)
C6_TwoRunsTwoParagraphs ==
    \A p \in Procs : Done(p) =>
        \A A \in Runs, B \in Runs, end \in {<<>>, <<NL>>} :
            call[p].data = A \o <<NL, NL>> \o B \o end =>
                LET last == Len(call[p].data) - 1
                    letters == {i \in 0..last : At(call[p].data, i) = "a"}
                IN  /\ Anchored(p, MarkdownTagParagraph[1], last) = 2
                    /\ Anchored(p, MarkdownTagParagraph[2], last) = 2
                    /\ \A i \in letters :
                          /\ Wrapped(p, i)
                          /\ Anchored(p, MarkdownTagParagraph[1], i) = (IF i < Len(A) THEN 1 ELSE 2)

\* the code shell a fenced block with hint h is to be rendered in, around
\* the pieces inner
InShell(h, inner, body) ==
    IF h = <<"g", "o">>
    THEN inner = <<"<div><pre><code>">> \o body \o <<"</code></pre></div>">>
    ELSE /\ Len(inner) >= 2
         /\ inner[1] = MarkdownTags[2].Insertion[1]
         /\ inner[Len(inner)] = MarkdownTags[2].Insertion[2]
         /\ TrimSpace(SubSeq(inner, 2, Len(inner) - 1)) = body

(* C7: a fenced block with hint h is rendered with both fence lines and    *)
(* the hint removed, only the body inside the code shell: the go shell for *)
(* the hint "go", the default shell for any other hint.                    *)
C7_FenceStripsHint ==
    \A p \in Procs : Done(p) =>
        \A h \in Hints, body \in Bodies : call[p].data = Fenced(h, body) =>
            /\ call[p].err = "nil"
            /\ Contained(p)
            /\ InShell(h, Body(p), body)

Anchor(t, u) == <<"<a href=">> \o u \o <<">">> \o t \o <<"</a>">>

EscapedStars(data) ==
    /\ "*" \in Pieces(data)
    /\ \A i \in 0..(Len(data) - 1) :
          /\ At(data, i) \in PlainChars \cup {BS, "*"}
          /\ At(data, i) = "*" => i > 0 /\ At(data, i - 1) = BS
          /\ At(data, i) = BS => i + 1 < Len(data) /\ At(data, i + 1) = "*"

InlineMarkup == UNION {Pieces(MarkdownTags[k].Insertion) : k \in 10..12}

(* C9: escaped delimiters are rendered literally: the output holds the     *)
(* text without the escaping backslashes and no italic or bold markup.     *)
C9_EscapedLiteral ==
    \A p \in Procs : Done(p) /\ EscapedStars(call[p].data) =>
        /\ call[p].err = "nil"
        /\ Contained(p)
        /\ Pieces(Body(p)) \cap InlineMarkup = {}
        /\ Without(Body(p), ParagraphMarkup) = Without(call[p].data, {BS})

AtNext(p, k) == call[p].pc = "tags" /\ call[p].tag = k

(* C11: scanner isolation: Next is never called with an index whose skip   *)
(* bit is set, and a scanner's state changes only by a Next call at an     *)
(* index that is not skipped, so it is the same before and after the       *)
(* skipped indices.                                                        *)
C11_ScannerIsolation ==
    /\ [](\A p \in Procs : call[p].pc = "tags" =>
              /\ InRange(call[p].index, Len(call[p].data))
              /\ ~call[p].skip[call[p].index])
    /\ [][\A k \in 1..NumTags : tags'[k] # tags[k] =>
              \E p \in Procs :
                  /\ AtNext(p, k)
                  /\ ~call[p].skip[call[p].index]
                  /\ tags'[k] = TagNext(k, tags[k], call[p].index,
                                        At(call[p].data, call[p].index)).tag]_vars

\* the pass of the last tag has gone past an index another scanner claimed
C11_Witness ==
    /\ AtNext(1, NumTags)
    /\ \E j \in 0..(call[1].index - 1) : call[1].skip[j]

\* the actions the Next call goroutine p is about to make returns
Pending(p) ==
    TagNext(call[p].tag, tags[call[p].tag], call[p].index, At(call[p].data, call[p].index)).out

(* C12: every character index is claimed by at most one completed          *)
(* construct: when the actions of a completed construct mark their ranges  *)
(* in the skip bitmap, no index of those ranges is marked already.         *)
C12_ClaimedOnce ==
    \A p \in Procs : call[p].pc = "tags" =>
        \A k \in 1..Len(Pending(p)) :
            Len(Pending(p)[k].SkipRange) > 1 =>
                \A i \in Pending(p)[k].SkipRange[1]..(Pending(p)[k].SkipRange[2] - 1) :
                    InRange(i, Len(call[p].data)) => ~call[p].skip[i]

\* the sub-render of a transformation action of Pending(p) fails
SubRenderFails(p) ==
    \E k \in 1..Len(Pending(p)) :
        LET action == Pending(p)[k]
            target == Slice(call[p].data, action.SkipRange[1], action.SkipRange[2])
        IN  /\ action.Transformation # "nil"
            /\ 0 <= action.SkipRange[1]
            /\ action.SkipRange[1] <= action.SkipRange[2]
            /\ action.SkipRange[2] <= Len(call[p].data)
            /\ IF action.Transformation = "code_go" THEN TransformGo(target).err
               ELSE TransformLink(target).err

(* C13: when the sub-render of a transformation action fails, Markdown     *)
(* stops at that action and returns the error with the empty output; a     *)
(* call goes on, and returns a nil error, only when no sub-render failed.  *)
C13_ErrorPropagated ==
    [][\A p \in Procs : call'[p] # call[p] =>
          /\ call[p].pc = "tags" =>
                /\ SubRenderFails(p) <=> call'[p].err = "error"
                /\ call'[p].err = "error" =>
                       call'[p].pc = "done" /\ call'[p].result = <<>>
          /\ call[p].pc # "tags" => call'[p].err = "nil"
          /\ call'[p].pc # "done" => call'[p].err = "nil"]_vars

C13_Witness == Done(1) /\ call[1].err = "error" /\ call[1].result = <<>>

\* the requests of client c served so far, as indices of served
Of(c) == {k \in 1..Len(served) : served[k].addr = c}

\* how many requests of the client of request k were issued in the interval
\* of length Timeout that ends with request k, request k itself counted
InInterval(k) ==
    Cardinality({j \in Of(served[k].addr) : j <= k /\ served[k].at - served[j].at <= Timeout})

\* the same without the requests that are a full Timeout old
InLastTimeout(k) ==
    Cardinality({j \in Of(served[k].addr) : j <= k /\ served[k].at - served[j].at < Timeout})

(* C14: per-client isolation: a client whose own requests never number     *)
(* more than Quota within an interval of length Timeout has every request  *)
(* passed to the wrapped handler, whatever the other clients send.         *)
C14_ClientIsolation ==
    \A c \in Clients :
        (\A k \in Of(c) : InInterval(k) <= Quota) => \A k \in Of(c) : served[k].passed

\* c1 stays within its quota and is served after c2 has been rejected
C14_Witness ==
    /\ \A k \in Of("c1") : InInterval(k) <= Quota
    /\ \E k \in Of("c2"), j \in Of("c1") : k < j /\ ~served[k].passed /\ served[j].passed
    /\ Cardinality(Of("c1")) >= 2

\* client c sends faster than Quota per Timeout: each request after the
\* first Quota comes less than Timeout after the Quota-th request before it
Fast(c) ==
    \A k \in Of(c) :
        Cardinality({j \in Of(c) : j < k}) >= Quota => InLastTimeout(k) > Quota

(* C15: a request is rejected exactly when the requests of its client in   *)
(* the last Timeout, the request itself and rejected requests counted,     *)
(* number more than Quota; so a client that keeps sending faster than      *)
(* Quota per Timeout has exactly its first Quota requests passed.          *)
C15_RejectedExactlyOverQuota ==
    /\ \A k \in 1..Len(served) : ~served[k].passed <=> InLastTimeout(k) > Quota
    /\ \A c \in Clients : Fast(c) =>
           \A k \in Of(c) : served[k].passed <=> Cardinality({j \in Of(c) : j < k}) < Quota

\* c1 keeps its rate and is rejected when the requests that were passed are
\* a full Timeout old: the rejected requests alone hold it over its quota
C15_Witness ==
    /\ Fast("c1")
    /\ \E j \in Of("c1") :
           /\ ~served[j].passed
           /\ \A k \in Of("c1") : served[k].passed => served[j].at - served[k].at >= Timeout

Reverse(list) == [k \in 1..Len(list) |-> list[Len(list) + 1 - k]]

\* the actions queued at an index in the order they were discovered: the
\* paragraph-open, found last, is queued at the front
Discovered(queue) ==
    IF queue # <<>> /\ Head(queue).Insertion = <<MarkdownTagParagraph[1]>>
    THEN Append(Tail(queue), Head(queue)) ELSE queue

\* the queue by descending Index, the entries of one Index in queue order
RECURSIVE ByIndex(_, _)
ByIndex(queue, indices) ==
    IF indices = {} THEN <<>>
    ELSE LET top == CHOOSE v \in indices : \A w \in indices : w <= v
         IN  SelectSeq(queue, LAMBDA action : action.Index = top)
                 \o ByIndex(queue, indices \ {top})

\* the output from index i on when the actions queued at an index are
\* emitted last discovered first (reversed) or by Index and queue order
RECURSIVE Emitted(_, _, _)
Emitted(p, i, reversed) ==
    IF i >= Len(call[p].data) THEN <<"</div>">>
    ELSE LET queue == call[p].actions[i]
             order == IF reversed THEN Reverse(Discovered(queue))
                      ELSE ByIndex(queue, {queue[k].Index : k \in 1..Len(queue)})
         IN  Insertions(order)
                 \o (IF call[p].skip[i] THEN <<>> ELSE <<At(call[p].data, i)>>)
                 \o Emitted(p, i + 1, reversed)

(* C16 as stated: the actions anchored at one index are emitted in reverse *)
(* discovery order, the last discovered first.                             *)
C16_ReverseDiscovery ==
    \A p \in Procs : Done(p) /\ call[p].err = "nil" =>
        call[p].result = <<"<div>">> \o Emitted(p, 0, TRUE)

(* C16 amended: the actions anchored at one index are emitted by           *)
(* descending Index field and, for one Index, in the order of the queue:   *)
(* a paragraph-open first, then the tags' actions in the order they were   *)
(* discovered, then a paragraph-close.                                     *)
C16_QueueOrder ==
    \A p \in Procs : Done(p) /\ call[p].err = "nil" =>
        call[p].result = <<"<div>">> \o Emitted(p, 0, FALSE)

\* an italic-close and a paragraph-close are anchored at one index
C16_Witness ==
    /\ Done(1) /\ call[1].err = "nil"
    /\ \E i \in 0..(Len(call[1].data) - 1) :
           /\ Len(call[1].actions[i]) >= 2
           /\ call[1].actions[i][1].Insertion = <<MarkdownTags[12].Insertion[2]>>
           /\ call[1].actions[i][2].Insertion = <<MarkdownTagParagraph[2]>>

(* C17: resolving a transformation action for the range [s, e) adds       *)
(* exactly one insertion action, anchored at s, to the queue of s, and     *)
(* leaves the entries already queued at s and the queues of all other      *)
(* indices unchanged.                                                      *)
C17_OneInsertionAtStart ==
    [][\A p \in Procs :
          call[p].pc = "tags" /\ call'[p] # call[p] /\ call'[p].err = "nil" =>
              \A k \in 1..Len(Pending(p)) : Pending(p)[k].Transformation # "nil" =>
                  LET start == Pending(p)[k].SkipRange[1]
                      before == call[p].actions
                      after == call'[p].actions
                  IN  /\ Len(after[start]) = Len(before[start]) + 1
                      /\ SubSeq(after[start], 1, Len(before[start])) = before[start]
                      /\ after[start][Len(after[start])].Index = start
                      /\ \A i \in 0..(Len(call[p].data) - 1) :
                             i # start => after[i] = before[i]]_vars

\* the catalog entries with the line-start constraint
LineStartTags ==
    {k \in 1..NumTags : MarkdownTags[k].kind = "generic" /\ MarkdownTags[k].OnNewline}

\* between the start of its line and index s the text holds only whitespace
BeginsLine(data, s) ==
    \A j \in 0..(s - 1) : (\A m \in j..(s - 1) : At(data, m) # NL) => IsSpace(At(data, j))

(* C18: a tag with the line-start constraint is open only with a trigger   *)
(* that begins a line: between the start of the line and the trigger there *)
(* is nothing, or only whitespace.                                         *)
C18_OpensAtLineStart ==
    \A p \in Procs : call[p].pc # "idle" =>
        \A k \in LineStartTags :
            tags[k].opened /\ InRange(tags[k].openedIndex, Len(call[p].data)) =>
                BeginsLine(call[p].data, tags[k].openedIndex)

\* the heading tags and the blockquote tag
LineTags == 4..8

\* the line that starts at index s ends with a line break
EndsWithBreak(data, s) == \E j \in s..(Len(data) - 1) : At(data, j) = NL

(* C19: in one call on the fresh catalog, a line that begins with a        *)
(* heading or blockquote trigger and ends with a line break opens and      *)
(* completes that tag, whatever the lines before it hold: the tag's        *)
(* opening insertion is queued at the start of the line.  (Texts with a    *)
(* backtick or a backslash are left out: a fence may claim the line and a  *)
(* backslash escapes what follows it.)                                     *)
C19_LineTagCompletes ==
    \A p \in Procs :
        Done(p) /\ call[p].err = "nil" /\ Pieces(call[p].data) \cap {BT, BS} = {} =>
            \A s \in 0..(Len(call[p].data) - 1), k \in LineTags :
                (/\ s = 0 \/ At(call[p].data, s - 1) = NL
                 /\ \E trigger \in Pieces(MarkdownTags[k].Triggers) :
                       /\ s + Len(trigger) <= Len(call[p].data)
                       /\ Slice(call[p].data, s, s + Len(trigger)) = trigger
                 /\ EndsWithBreak(call[p].data, s))
                => \E j \in 1..Len(call[p].actions[s]) :
                       call[p].actions[s][j].Insertion = <<MarkdownTags[k].Insertion[1]>>

\* the generic tags with more than one trigger variant
VariantTags ==
    {k \in 1..NumTags : MarkdownTags[k].kind = "generic" /\ Len(MarkdownTags[k].Triggers) > 1}

(* C20: a construct of a tag with several trigger variants, opened with    *)
(* variant v, is closed only by v: while the tag is open no step opens a   *)
(* new construct of it (openedWith and openedIndex stay), and the step     *)
(* that closes it has v in the window.                                     *)
C20_ClosedBySameVariant ==
    [][\A k \in VariantTags : tags[k].opened =>
          /\ tags'[k].opened =>
                /\ tags'[k].openedWith = tags[k].openedWith
                /\ tags'[k].openedIndex = tags[k].openedIndex
          /\ ~tags'[k].opened => tags'[k].Window = tags[k].openedWith]_vars

\* the italic tag, open with "*", has seen "_" and is still open
C20_Witness ==
    /\ call[1].pc = "tags"
    /\ tags[12].opened
    /\ tags[12].openedWith = <<"*">>
    /\ tags[12].Window = <<"_">>

\* the catalog entries that insert markup around their content
InsertionTags ==
    {k \in 1..NumTags : MarkdownTags[k].kind = "generic" /\ MarkdownTags[k].Transformation = "nil"}

\* the text spells one of the triggers at the indices of range
Spells(data, range, triggers) ==
    /\ 0 <= range[1]
    /\ range[1] <= range[2]
    /\ range[2] <= Len(data)
    /\ Contains(triggers, Slice(data, range[1], range[2]))

(* C21: when an insertion tag completes, the range its opening action      *)
(* consumes spells an opening trigger in the text and the range its        *)
(* closing action consumes spells a closing trigger, also when indices     *)
(* claimed by earlier scanners lie between or next to the delimiter        *)
(* characters.                                                             *)
C21_DelimitersSpelled ==
    \A p \in Procs : call[p].pc = "tags" /\ call[p].tag \in InsertionTags =>
        (Len(Pending(p)) = 2 =>
            /\ Spells(call[p].data, Pending(p)[1].SkipRange, MarkdownTags[call[p].tag].Triggers)
            /\ Spells(call[p].data, Pending(p)[2].SkipRange,
                      TriggersClosing(MarkdownTags[call[p].tag])))

(* C22: the closing delimiter of a completed generic construct shares no   *)
(* character with its opening delimiter: the range the closing action      *)
(* consumes starts at or after the end of the range the opening action     *)
(* consumes.                                                               *)
C22_DelimitersDisjoint ==
    \A p \in Procs : call[p].pc = "tags" /\ call[p].tag \in InsertionTags =>
        (Len(Pending(p)) = 2 => Pending(p)[2].SkipRange[1] >= Pending(p)[1].SkipRange[2])

\* the character at index i of the text follows an unescaped backslash
RECURSIVE EscapedAt(_, _)
EscapedAt(data, i) ==
    IF i < 1 \/ i >= Len(data) THEN FALSE
    ELSE At(data, i - 1) = BS /\ ~EscapedAt(data, i - 1)

\* an index of range holds an escaped character
HasEscaped(data, range) == \E i \in range[1]..(range[2] - 1) : EscapedAt(data, i)

(* C23: in a generic scanner the character after an unescaped backslash is *)
(* passed through: the Next call for it opens and closes nothing, it is    *)
(* not among the characters of the window the tag opens on, and it is not  *)
(* in a range that the opening or the closing action of an insertion tag   *)
(* consumes.                                                               *)
C23_EscapedPassedThrough ==
    \A p \in Procs :
        call[p].pc = "tags" /\ MarkdownTags[call[p].tag].kind = "generic" =>
            LET k == call[p].tag
                data == call[p].data
                next == TagNext(k, tags[k], call[p].index, At(data, call[p].index))
            IN  /\ tags[k].skip => next.out = NoAction /\ next.tag.opened = tags[k].opened
                /\ ~tags[k].opened /\ next.tag.opened =>
                       ~HasEscaped(data, <<next.tag.openedIndex, call[p].index + 1>>)
                /\ k \in InsertionTags =>
                       \A a \in 1..Len(next.out) : ~HasEscaped(data, next.out[a].SkipRange)

\* the catalog entries of the link scanner
LinkTags == {k \in 1..NumTags : MarkdownTags[k].kind = "link"}

(* C24: in the link scanner a bracket that follows an unescaped backslash  *)
(* is not recognised: an escaped "[" does not open a hint, and an escaped  *)
(* "]" followed by "(" does not move the scanner from an open hint to an   *)
(* open link.                                                              *)
C24_EscapedBracketIgnored ==
    \A p \in Procs : call[p].pc = "tags" /\ call[p].tag \in LinkTags =>
        LET k == call[p].tag
            data == call[p].data
            i == call[p].index
            next == LinkNext(tags[k], i, At(data, i))
        IN  /\ At(data, i) = "[" /\ EscapedAt(data, i) /\ ~tags[k].openHint =>
                   ~next.tag.openHint
            /\ (/\ i >= 1
                 /\ At(data, i) = "("
                 /\ At(data, i - 1) = "]"
                 /\ EscapedAt(data, i - 1)
                 /\ tags[k].openHint) => ~next.tag.openLink

(* C25: a hint abandoned on a bare "]" leaves the link scanner idle for    *)
(* every character after that "]": a "[" at the index right after the "]"  *)
(* opens a new hint at that index.                                         *)
C25_IdleAfterBareBracket ==
    \A p \in Procs : call[p].pc = "tags" /\ call[p].tag \in LinkTags =>
        LET k == call[p].tag
            data == call[p].data
            i == call[p].index
            next == LinkNext(tags[k], i, At(data, i))
        IN  (/\ i >= 1
             /\ tags[k].openHint
             /\ ~tags[k].skip
             /\ At(data, i - 1) = "]"
             /\ ~EscapedAt(data, i - 1)
             /\ tags[k].window[2] = "]"
             /\ At(data, i) = "[") => next.tag.openHint /\ next.tag.openIndex = i

\* the indices between the opening and the closing fence of the blocks the
\* go fence tag has completed: a block starts where its shell is anchored
\* and ends with the first closing trigger after the opening one
GoFenceBody(c) ==
    {i \in 0..(Len(c.data) - 1) :
        \E s \in 0..i :
            /\ \E a \in 1..Len(c.actions[s]) :
                   /\ c.actions[s][a].Insertion # <<>>
                   /\ c.actions[s][a].Insertion[1] = "<div><pre><code>"
            /\ s + 5 <= i
            /\ i < IndexFrom(c.data, TriggersClosing(MarkdownTags[1])[1], s + 5) + 1}

\* the indices between the opening and the closing fence of the blocks the
\* fence tag has completed: between the ranges of an opening action and of
\* the first closing action after it
FenceBody(c) ==
    {i \in 0..(Len(c.data) - 1) :
        \E s \in 0..i :
            /\ \E a \in 1..Len(c.actions[s]) :
                   c.actions[s][a].Insertion = <<MarkdownTags[2].Insertion[1]>>
            /\ s + 3 <= i
            /\ \A j \in s..(i + 2) : \A a \in 1..Len(c.actions[j]) :
                   c.actions[j][a].Insertion # <<MarkdownTags[2].Insertion[2]>>
            /\ \E j \in (i + 3)..(Len(c.data) - 1) : \E a \in 1..Len(c.actions[j]) :
                   c.actions[j][a].Insertion = <<MarkdownTags[2].Insertion[2]>>}

(* C26: the body of a completed fenced block is opaque: no action that a   *)
(* tag after the two fence tags returns is anchored at an index between    *)
(* the opening and the closing fence, and none consumes such an index.     *)
C26_FenceBodyOpaque ==
    \A p \in Procs : call[p].pc = "tags" /\ call[p].tag > 2 =>
        \A a \in 1..Len(Pending(p)) :
            LET action == Pending(p)[a]
                body == GoFenceBody(call[p]) \cup FenceBody(call[p])
            IN  /\ action.Index \notin body
                /\ \A i \in body : ~(action.SkipRange[1] <= i /\ i < action.SkipRange[2])

\* the text holds trigger at index s
MatchesAt(data, trigger, s) ==
    s + Len(trigger) <= Len(data) /\ Slice(data, s, s + Len(trigger)) = trigger

\* action carries markup of the k-th catalog entry
Emits(k, action) ==
    IF action.Insertion = <<>> THEN FALSE
    ELSE IF MarkdownTags[k].kind = "link" THEN action.Insertion[1] = "<a href="
    ELSE IF MarkdownTags[k].Transformation # "nil" THEN action.Insertion[1] = "<div><pre><code>"
    ELSE action.Insertion \in {<<MarkdownTags[k].Insertion[1]>>, <<MarkdownTags[k].Insertion[2]>>}

\* the k-th catalog entry has completed a construct opened with trigger at s
CompletedAt(c, k, trigger, s) ==
    \E a \in 1..Len(c.actions[s]) :
        /\ Emits(k, c.actions[s][a])
        /\ MarkdownTags[k].Transformation = "nil" =>
               /\ c.actions[s][a].Insertion = <<MarkdownTags[k].Insertion[1]>>
               /\ c.actions[s][a].SkipRange = <<s, s + Len(trigger)>>

(* C27: catalog order is precedence: when the triggers of two catalog      *)
(* entries both match at the same index of the text and the construct of   *)
(* the earlier entry completes, no action of the later entry is anchored   *)
(* at a character of that delimiter.                                       *)
C27_EarlierEntryWins ==
    \A p \in Procs : Done(p) /\ call[p].err = "nil" =>
        \A s \in 0..(Len(call[p].data) - 1), j \in 1..NumTags, k \in 1..NumTags :
            j < k /\ MarkdownTags[j].kind = "generic" /\ MarkdownTags[k].kind = "generic" =>
                \A tj \in Pieces(MarkdownTags[j].Triggers), tk \in Pieces(MarkdownTags[k].Triggers) :
                    (/\ MatchesAt(call[p].data, tj, s)
                     /\ MatchesAt(call[p].data, tk, s)
                     /\ CompletedAt(call[p], j, tj, s)) =>
                        \A i \in s..(s + Len(tj) - 1) : \A a \in 1..Len(call[p].actions[i]) :
                            ~Emits(k, call[p].actions[i][a])

(* C28: no empty paragraph is produced: in the returned text a             *)
(* paragraph-open insertion is never directly followed by its              *)
(* paragraph-close insertion; between them there is an emitted character   *)
(* or inserted markup.                                                     *)
C28_NoEmptyParagraph ==
    \A p \in Procs : Done(p) /\ call[p].err = "nil" =>
        \A k \in 1..(Len(call[p].result) - 1) :
            call[p].result[k] = MarkdownTagParagraph[1] =>
                call[p].result[k + 1] # MarkdownTagParagraph[2]

\* the index at which the characters of the opening delimiter of the open
\* tag start: the window the tag opened on holds the last characters Next
\* was called for, which are the last indices, up to the one it opened at,
\* that are not skipped
DelimiterStart(c, tag) ==
    LET last == tag.openedIndex + Len(tag.openedWith) - 1
        seen(s) == {i \in s..last : ~c.skip[i]}
    IN  Least({s \in 0..last : Cardinality(seen(s)) <= Len(tag.openedWith)})

\* a paragraph run of the synthesized call goes from "from" to "to"
ParagraphRun(c, from, to) ==
    /\ from <= to
    /\ c.actions[from] # <<>>
    /\ c.actions[from][1].Insertion = <<MarkdownTagParagraph[1]>>
    /\ c.actions[to] # <<>>
    /\ c.actions[to][Len(c.actions[to])].Insertion = <<MarkdownTagParagraph[2]>>
    /\ \A i \in (from + 1)..to :
           c.actions[i] = <<>> \/ c.actions[i][1].Insertion # <<MarkdownTagParagraph[1]>>

(* C29: when a tag with the line-start constraint completes a construct,   *)
(* every index from the start of its opening delimiter to the end of its   *)
(* closing delimiter is set in the block bitmap; the synthesizer anchors   *)
(* no paragraph action at an index set in the bitmap and extends no        *)
(* paragraph run across one.                                               *)
C29_BlocksOutsideParagraphs ==
    \A p \in Procs :
        /\ (/\ call[p].pc = "tags"
             /\ call[p].tag \in LineStartTags
             /\ Pending(p) # NoAction
             /\ ApplyNext(call[p], Pending(p)).err = "nil") =>
                \A i \in DelimiterStart(call[p], tags[call[p].tag])..call[p].index :
                    ApplyNext(call[p], Pending(p)).paragraphs[i]
        /\ call[p].pc = "paragraphs" =>
                LET after == Synthesized(call[p])
                IN  /\ \A i \in 0..(Len(call[p].data) - 1) :
                           call[p].paragraphs[i] => after.actions[i] = call[p].actions[i]
                    /\ \A from \in 0..(Len(call[p].data) - 1), to \in 0..(Len(call[p].data) - 1) :
                           ParagraphRun(after, from, to) =>
                               \A i \in from..to : ~call[p].paragraphs[i]

\* the length of the action texts queued at the indices up to i
RECURSIVE Inserted(_, _)
Inserted(c, i) ==
    IF i < 0 THEN 0 ELSE Len(Insertions(c.actions[i])) + Inserted(c, i - 1)

\* the number of characters before index i whose skip bit is false
Kept(c, i) == Cardinality({j \in 0..(i - 1) : ~c.skip[j]})

(* C30: the renderer emits an original character if and only if its skip   *)
(* bit is false: the returned text is one outer container around a body    *)
(* in which, the action texts apart, there are exactly the characters       *)
(* whose skip bit is false, each after the action texts queued up to its    *)
(* index and after the kept characters before it; the render step returns  *)
(* no error.                                                               *)
C30_EmittedIffNotSkipped ==
    \A p \in Procs :
        /\ call[p].pc = "render" => Returned(call[p]).err = "nil"
        /\ Done(p) /\ call[p].err = "nil" =>
               LET c == call[p]
                   n == Len(c.data)
               IN  /\ Contained(p)
                   /\ Len(Body(p)) = Inserted(c, n - 1) + Kept(c, n)
                   /\ \A i \in 0..(n - 1) : ~c.skip[i] =>
                          Body(p)[Inserted(c, i) + Kept(c, i) + 1] = At(c.data, i)

\* a call has returned a text with an emitted character, a suppressed
\* character and an action text
C30_Witness ==
    /\ Done(1)
    /\ call[1].err = "nil"
    /\ \E i \in 0..(Len(call[1].data) - 1) : call[1].skip[i]
    /\ \E i \in 0..(Len(call[1].data) - 1) : ~call[1].skip[i]
    /\ Inserted(call[1], Len(call[1].data) - 1) > 0

(* C31: the positions of the actions and of the ranges are character       *)
(* offsets: every action queued when the renderer starts is anchored at an *)
(* index the renderer visits, the first byte of a character, and no range  *)
(* a scanner returns starts or ends inside a character.                    *)
C31_CharacterOffsets ==
    \A p \in Procs :
        /\ call[p].pc = "render" =>
               \A i \in 0..(Len(call[p].data) - 1) :
                   call[p].actions[i] # <<>> => ~Continuation(call[p].data, i)
        /\ call[p].pc = "tags" =>
               \A a \in 1..Len(Pending(p)) : \A b \in 1..Len(Pending(p)[a].SkipRange) :
                   LET at == Pending(p)[a].SkipRange[b]
                   IN  0 <= at /\ at < Len(call[p].data) => ~Continuation(call[p].data, at)

(* C32: in every sequence of calls, every action a scanner returns has its *)
(* anchor index in [0, len(text)) and its consumed range inside            *)
(* [0, len(text)] of the text of the current call, and no call ends with   *)
(* an index out of range.                                                  *)
C32_ActionsInRange ==
    \A p \in Procs :
        /\ call[p].err # "panic"
        /\ call[p].pc = "tags" =>
               \A a \in 1..Len(Pending(p)) :
                   LET action == Pending(p)[a]
                       n == Len(call[p].data)
                   IN  /\ InRange(action.Index, n)
                       /\ 0 <= action.SkipRange[1]
                       /\ action.SkipRange[1] <= action.SkipRange[2]
                       /\ action.SkipRange[2] <= n

\* the opening insertions of the paragraph wrapper and of the insertion tags
Openers ==
    {MarkdownTagParagraph[1]} \cup {MarkdownTags[k].Insertion[1] : k \in InsertionTags}

\* the closing insertions of the paragraph wrapper and of the insertion tags
Closers ==
    {MarkdownTagParagraph[2]} \cup {MarkdownTags[k].Insertion[2] : k \in InsertionTags}

\* the opening insertions of the constructs that close with closer
OpenersOf(closer) ==
    (IF closer = MarkdownTagParagraph[2] THEN {MarkdownTagParagraph[1]} ELSE {})
        \cup {MarkdownTags[k].Insertion[1] : k \in {j \in InsertionTags : MarkdownTags[j].Insertion[2] = closer}}

\* reading list from left to right with the open constructs in stack, the
\* last opened first: every closing insertion closes the head of the stack
RECURSIVE Nests(_, _)
Nests(list, stack) ==
    IF list = <<>> THEN TRUE
    ELSE IF Head(list) \in Openers THEN Nests(Tail(list), <<Head(list)>> \o stack)
    ELSE IF Head(list) \in Closers
    THEN /\ stack # <<>>
         /\ Head(stack) \in OpenersOf(Head(list))
         /\ Nests(Tail(list), Tail(stack))
    ELSE Nests(Tail(list), stack)

(* C33: the inserted markup of the returned text is properly nested: every *)
(* closing insertion closes the most recently opened construct that is     *)
(* still open.                                                             *)
C33_ProperlyNested ==
    \A p \in Procs : Done(p) /\ call[p].err = "nil" => Nests(Body(p), <<>>)

\* the opening and the closing element of the heading levels 1 to 4
HeadingOpening == <<"<h1>", "<h2>", "<h3>", "<h4>">>

HeadingClosing == <<"</h1>\n", "</h2>\n", "</h3>\n", "</h4>\n">>

(* C34: the heading wrappers are matched pairs: in the returned text the   *)
(* opening element of level n, inserted for a completed heading line, is   *)
(* followed by the closing element of level n before any other heading     *)
(* closing.                                                                *)
C34_HeadingPairsMatch ==
    \A p \in Procs : Done(p) /\ call[p].err = "nil" =>
        \A i \in 1..Len(call[p].result), n \in 1..4 :
            call[p].result[i] = HeadingOpening[n] =>
                LET closings == {j \in (i + 1)..Len(call[p].result) :
                                    call[p].result[j] \in Pieces(HeadingClosing)}
                IN  closings # {} /\ call[p].result[Least(closings)] = HeadingClosing[n]

\* the number of entries of cleans with the RemoteAddr addr
Queued(addr) == Cardinality({k \in 1..Len(cleans) : cleans[k].RemoteAddr = addr})

(* C35: after every call of rate, limits[a] is the number of entries of    *)
(* cleans with RemoteAddr a for every address a, limits holds no zero and  *)
(* no negative count, and the entries of cleans are ordered by             *)
(* non-decreasing expiry time.                                             *)
C35_LimitsMatchCleans ==
    /\ \A addr \in Clients : Read(limits, addr) = Queued(addr)
    /\ \A addr \in DOMAIN limits : limits[addr] > 0
    /\ \A k \in 1..(Len(cleans) - 1) : cleans[k].After <= cleans[k + 1].After

\* a call of rate has removed every entry of one client from cleans while
\* the other client still has entries there
C35_Witness ==
    /\ \E addr \in Clients : addr \notin DOMAIN limits /\ \E k \in 1..Len(served) : served[k].addr = addr
    /\ \E addr \in DOMAIN limits : limits[addr] > 1

\* the path of the request is under the prefix of the middleware
UnderPrefix(path) == HasPrefix(ToLower(path), guard.prefix)

(* C36: a request whose path starts with the prefix, letter case apart,    *)
(* reaches the wrapped handler only if authed(req) is true; a request      *)
(* under the prefix with authed(req) false is answered by the unauthorized *)
(* handler; a request outside the prefix reaches the wrapped handler.      *)
C36_GuardedByAuthed ==
    \A k \in 1..Len(handled) :
        LET h == handled[k]
        IN  /\ UnderPrefix(h.path) /\ h.to = "handler" => h.authed
            /\ UnderPrefix(h.path) /\ ~h.authed => h.to = "unauthorized"
            /\ ~UnderPrefix(h.path) => h.to = "handler"

\* goroutine p holds the mutex
Holds(mutex, p) == p \in mutex.readers \/ mutex.writer = p

(* C37: lock discipline of SimpleAuth: a goroutine about to execute Unlock *)
(* holds the mutex for writing, a goroutine about to execute RUnlock holds *)
(* it for reading, no handler ends in a fatal error of the runtime, and a  *)
(* handler that has returned holds no mutex.                               *)
C37_LockDiscipline ==
    \A p \in Procs :
        /\ login[p].pc = "unlock" => mutexes.usersMutex.writer = p
        /\ login[p].pc = "usersRead" => p \in mutexes.usersMutex.readers
        /\ login[p].pc = "loginsRead" => p \in mutexes.loginsMutex.readers
        /\ login[p].pc # "fatal"
        /\ login[p].pc \in {"idle", "returned"} =>
               ~Holds(mutexes.usersMutex, p) /\ ~Holds(mutexes.loginsMutex, p)

\* the goroutine of entry k has an error to report
Reports(k) == walk.workers[k].outcome \in {"err", "panic"}

(* C38: in the parallel walk no goroutine sends on the closed channel;     *)
(* every error and every recovered panic is sent before the goroutine      *)
(* decrements the WaitGroup; the channel is closed only after every        *)
(* started goroutine has decremented it; the caller returns after the      *)
(* close, with the errors of all goroutines joined.                        *)
C38_NoErrorLost ==
    /\ \A k \in Entries :
           /\ walk.workers[k].pc # "crashed"
           /\ Reports(k) /\ walk.workers[k].decremented => walk.workers[k].sent
           /\ walk.closed /\ walk.workers[k].pc # "none" => walk.workers[k].decremented
           /\ walk.pc = "returned" /\ Reports(k) =>
                  \E i \in 1..Len(walk.joined) : walk.joined[i] = k
    /\ walk.pc = "returned" => walk.closed

====
